---- MODULE Spec2Model ----
(***************************************************************************)
(* percore: per-CPU-core state guarded by exception masking.               *)
(*                                                                         *)
(* Registers are modelled as the set of bit positions that are 1, so that  *)
(* the bitwise operators of the assembly are exact at any register width:  *)
(* AND is intersection, OR is union, NOT is the complement in the width.   *)
(***************************************************************************)
EXTENDS Integers, Sequences, FiniteSets, TLC

(* ------------------------------ bounds -------------------------------- *)
\* cores of the system; the container has one slot per core
NumCores == 2
\* exception_free calls in one execution (so nesting is at most this deep)
MaxRegions == 2
\* asynchronous exceptions taken in one execution
MaxExceptions == 1
\* exception handlers active on one core at a time
MaxHandlers == 1
\* largest core_count passed to new_with_default
MaxCoreCount == 3

SlotCount == NumCores

Cores == 0 .. (NumCores - 1)
Slots == 0 .. (SlotCount - 1)

(* --------------------------- register bits ---------------------------- *)
Word32 == 0 .. 31
Word64 == 0 .. 63

\* x << n in a register of the given width (bits shifted out are lost)
Shl(x, n, width) == {b + n : b \in x} \cap width

\* the literal 0x7 and the literal 0xf
Lit7 == {0, 1, 2}
LitF == {0, 1, 2, 3}

\* const AIF_MASK: u32 = 0x7 << 6;
AIF_MASK == Shl(Lit7, 6, Word32)

\* PSTATE.{D,A,I,F} as they appear in the DAIF system register: bits 9..6
DAIF_FIELD == Shl(LitF, 6, Word64)

(* ---------------------- aarch64 mask / restore ------------------------ *)
\* "mrs {prev:x}, DAIF"
\* (faulty variant: the read comes after "msr DAIFSet, #0xf")
aarch64_mrs_DAIF_AfterSet(reg) == DAIF_FIELD
aarch64_mrs_DAIF(reg) == reg \cap DAIF_FIELD

\* "msr DAIFSet, #0xf": sets the PSTATE bits selected by the immediate
\* (faulty variants: nothing set; the I bit left out; the F bit left out)
aarch64_msr_DAIFSet_None(reg, imm) == reg
aarch64_msr_DAIFSet_NoIRQ(reg, imm) == reg \cup Shl(imm \ {1}, 6, Word64)
aarch64_msr_DAIFSet_NoFIQ(reg, imm) == reg \cup Shl(imm \ {0}, 6, Word64)
aarch64_msr_DAIFSet(reg, imm) == reg \cup Shl(imm, 6, Word64)

\* pub fn mask() -> u64, as one uninterrupted sequence
aarch64_mask(reg) ==
  [prev |-> aarch64_mrs_DAIF(reg), reg |-> aarch64_msr_DAIFSet(reg, LitF)]

\* pub unsafe fn restore(prev: u64): "msr DAIF, {prev:x}"
\* (faulty variants: everything enabled; register left as it is)
aarch64_restore_Unmask(reg, prev) == reg \ DAIF_FIELD
aarch64_restore_Keep(reg, prev) == reg
aarch64_restore(reg, prev) == (reg \ DAIF_FIELD) \cup (prev \cap DAIF_FIELD)

(* ---------------------- aarch32 mask / restore ------------------------ *)
\* "cpsid aif": sets the A, I and F bits of CPSR
\* (faulty variants: "cpsid if"; "cpsid ai")
aarch32_cpsid_aif_NoA(reg) == reg \cup {6, 7}
aarch32_cpsid_aif_NoF(reg) == reg \cup {7, 8}
aarch32_cpsid_aif(reg) == reg \cup {6, 7, 8}

\* pub fn mask() -> u32
aarch32_mask(reg) ==
  [prev |-> reg \cap AIF_MASK, reg |-> aarch32_cpsid_aif(reg)]

\* pub unsafe fn restore(prev: u32)
\* (faulty variant: "orr" in place of "and")
aarch32_restore_Or(reg, prev) == reg \cup prev
aarch32_restore_Write(reg, prev) ==
  (reg \ AIF_MASK) \cup (prev \cap AIF_MASK)
aarch32_restore(reg, prev) ==
  LET mask == prev \cup (Word32 \ AIF_MASK)
      temp == reg \cap mask
  IN  temp

(* --------------------------- program state ---------------------------- *)
VARIABLES
  kind,       \* storage shape of the PerCore: "array" or "boxed"
  coreIndex,  \* the platform's Cores::core_index, per core
  values,     \* PerCore.values: slot -> RefCell inside an ExceptionLock
  daif,       \* per core: the interrupt mask register (PSTATE.DAIF; CPSR in
              \* the 32-bit machine)
  ctx,        \* per core: stack of execution contexts, running one last
  got,        \* per core: the slot get()/get_mut() last returned, -1 if none
  seen,       \* per core: every slot get()/get_mut() has returned so far
  calls,      \* exception_free calls made so far
  taken,      \* asynchronous exceptions taken so far
  rarch,      \* register harness: backend under test
  rpc,        \* register harness: position
  rorig,      \* register harness: register value before mask()
  rreg,       \* register harness: register value now
  rprev,      \* register harness: value returned by mask()
  dtype,      \* new_with_default: the element type T
  dcount,     \* new_with_default: the argument core_count
  dpc,        \* new_with_default: position
  dstate,     \* new_with_default: the PerCore returned
  dcalls,     \* new_with_default: calls of the default-value closure
  dprobe      \* new_with_default: last get()/get_mut() on the PerCore returned

vars == <<kind, coreIndex, values, daif, ctx, got, seen, calls, taken, rarch, rpc, rorig, rreg, rprev,
          dtype, dcount, dpc, dstate, dcalls, dprobe>>
machineVars == <<kind, coreIndex, values, daif, ctx, got, seen, calls, taken>>
registerVars == <<rarch, rpc, rorig, rreg, rprev>>
defaultVars == <<dtype, dcount, dpc, dstate, dcalls, dprobe>>
harnessVars == <<registerVars, defaultVars>>

(* ------------------------------ PerCore ------------------------------- *)
\* Rust slice/array indexing: a bounds check, then the element's place
\* (faulty variants: no bounds check; always the first element)
Index_Wrap(storage, i) == [ok |-> TRUE, slot |-> i % SlotCount]
Index_First(storage, i) ==
  IF i \in DOMAIN storage THEN [ok |-> TRUE, slot |-> 0]
  ELSE [ok |-> FALSE, slot |-> -1]
Index(storage, i) ==
  IF i \in DOMAIN storage THEN [ok |-> TRUE, slot |-> i]
  ELSE [ok |-> FALSE, slot |-> -1]

\* impl PerCore<[T; CORE_COUNT], C>
PerCoreArray_get(storage, c) == Index(storage, coreIndex[c])
PerCoreArray_get_mut(storage, c) == Index(storage, coreIndex[c])

\* impl PerCore<Box<[T]>, C>
PerCoreBoxed_get(storage, c) == Index(storage, coreIndex[c])
\* (faulty variants: the first element whatever the core; no bounds check)
PerCoreBoxed_get_mut_First(storage, c) == Index(storage, 0)
PerCoreBoxed_get_mut_Unchecked(storage, c) ==
  [ok |-> TRUE, slot |-> coreIndex[c]]
PerCoreBoxed_get_mut(storage, c) == Index(storage, coreIndex[c])

get(c) ==
  IF kind = "array" THEN PerCoreArray_get(values, c)
  ELSE PerCoreBoxed_get(values, c)

get_mut(c) ==
  IF kind = "array" THEN PerCoreArray_get_mut(values, c)
  ELSE PerCoreBoxed_get_mut(values, c)

\* Cores implementations: a real one (each core its own number), the tests'
\* FakeCoresImpl (always 0), and one that is off by one (last core reports
\* an index past the core count)
RealCores == [c \in Cores |-> c]
FakeCoresImpl == [c \in Cores |-> 0]
OffByOneCores == [c \in Cores |-> c + 1]
Identities == {RealCores, FakeCoresImpl, OffByOneCores}

(* ------------------------ execution contexts -------------------------- *)
\* a panic is in flight: the bounds check of get()/get_mut() failed, or
\* RefCell::borrow_mut found the cell already borrowed
Panicking == {"panic_bounds", "panic_borrow"}

\* a context as it starts: a core's thread (saved: the register it starts
\* with), or a handler (saved: the register the hardware saved on entry).
\* "outer" is the register as it is outside every region of the context;
\* "obs" is the value the context last read from its core's cell in its
\* current outermost region, with no write of its own since (-1: none).
NewContext(isHandler, saved) ==
  [handler |-> isHandler, spsr |-> saved, pc |-> "run", tmp |-> {},
   at |-> {}, frames |-> <<>>, obs |-> -1,
   outer |-> IF isHandler THEN saved \cup DAIF_FIELD ELSE saved,
   nested |-> FALSE, crossed |-> 0, back |-> {}]

Depth(c) == Len(ctx[c])
Top(c) == ctx[c][Depth(c)]
SetTop(c, r) == [ctx EXCEPT ![c][Depth(c)] = r]

\* the tests' cells start at 42 and are incremented once
InitVal == 42
Vals == {42, 43}

\* initial register pattern of each core's thread context: everything
\* enabled, IRQ and FIQ masked, SError and IRQ masked, ...
InitPatterns == <<{}, {6, 7}, {7, 8}, {9}>>
InitMask(c) == InitPatterns[(c % Len(InitPatterns)) + 1]

HarnessOff ==
  rarch = "none" /\ rpc = "off" /\ rorig = {} /\ rreg = {} /\ rprev = {}

NoProbe == [op |-> "none", core |-> -1, r |-> [ok |-> FALSE, slot |-> -1]]

DefaultOff ==
  /\ dtype = "none" /\ dcount = 0 /\ dpc = "off"
  /\ dstate = [values |-> <<>>] /\ dcalls = 0 /\ dprobe = NoProbe

Init ==
  /\ kind \in {"array", "boxed"}
  /\ coreIndex \in Identities
  /\ values = [s \in Slots |-> [v |-> InitVal, writing |-> FALSE]]
  /\ daif = [c \in Cores |-> InitMask(c)]
  /\ ctx = [c \in Cores |-> <<NewContext(FALSE, InitMask(c))>>]
  /\ got = [c \in Cores |-> -1]
  /\ seen = [c \in Cores |-> {}]
  /\ calls = 0
  /\ taken = 0
  /\ HarnessOff
  /\ DefaultOff

(* ------------------------------ RefCell ------------------------------- *)
\* the RefCell's borrow flag is released when a RefMut is dropped
ReleaseCell(cells, f) ==
  IF f.acc = "mut" THEN [cells EXCEPT ![f.slot].writing = FALSE] ELSE cells

\* a reference made by borrow/borrow_mut is alive in some context
BorrowAlive ==
  \E c \in Cores : \E i \in 1 .. Depth(c) :
    \E k \in 1 .. Len(ctx[c][i].frames) : ctx[c][i].frames[k].acc # "none"

(* ------------------------- exception_free ----------------------------- *)
\* ExceptionGuard::mask, first instruction of mask(): read the register.
\* "at" and "outer" record the register as it is when the call starts.
ExceptionGuard_mask_mrs(c) ==
  LET t == Top(c) IN
  /\ t.pc = "run"
  /\ calls < MaxRegions
  /\ calls' = calls + 1
  /\ ctx' = SetTop(c, [t EXCEPT !.pc = "masking",
                                !.tmp = aarch64_mrs_DAIF(daif[c]),
                                !.at = daif[c],
                                !.outer = IF t.frames = <<>> THEN daif[c] ELSE @,
                                !.nested = IF t.frames = <<>> THEN FALSE ELSE @])
  /\ UNCHANGED <<kind, coreIndex, got, seen, values, daif, taken, harnessVars>>

\* second instruction of mask(), then the guard and the token exist and
\* f(token) starts. "level" is the guard's place in the order of creation
\* among the guards alive in the context.
ExceptionGuard_mask_msr(c) ==
  LET t == Top(c)
      fs == Append(t.frames,
                   [prev |-> t.tmp, entry |-> t.at, acc |-> "none", slot |-> -1,
                    level |-> Len(t.frames) + 1])
  IN
  /\ t.pc = "masking"
  /\ daif' = [daif EXCEPT ![c] = aarch64_msr_DAIFSet(@, LitF)]
  /\ ctx' = SetTop(c, [t EXCEPT !.pc = "run", !.tmp = {}, !.at = {},
                                !.frames = fs,
                                !.nested = (Len(fs) > 1) \/ @])
  /\ UNCHANGED <<kind, coreIndex, got, seen, values, calls, taken, harnessVars>>

\* impl Drop for ExceptionGuard: the references made with the region's token
\* have ended, restore(self.prev) runs and the guard is gone
\* (faulty variants: the oldest guard of the context is dropped; a reference
\* made with the token survives the region)
DropGuard_KeepBorrow(c, t) ==
  LET f == t.frames[Len(t.frames)] IN
  /\ daif' = [daif EXCEPT ![c] = aarch64_restore(@, f.prev)]
  /\ values' = values
  /\ ctx' = SetTop(c, [t EXCEPT !.frames = SubSeq(@, 1, Len(@) - 1),
                                !.obs = IF Len(t.frames) = 1 THEN -1 ELSE @])
DropGuard_Oldest(c, t) ==
  LET f == t.frames[1] IN
  /\ daif' = [daif EXCEPT ![c] = aarch64_restore(@, f.prev)]
  /\ values' = ReleaseCell(values, f)
  /\ ctx' = SetTop(c, [t EXCEPT !.frames = Tail(@),
                                !.obs = IF Len(t.frames) = 1 THEN -1 ELSE @])
DropGuard(c, t) ==
  LET f == t.frames[Len(t.frames)] IN
  /\ daif' = [daif EXCEPT ![c] = aarch64_restore(@, f.prev)]
  /\ values' = ReleaseCell(values, f)
  /\ ctx' = SetTop(c, [t EXCEPT !.frames = SubSeq(@, 1, Len(@) - 1),
                                !.obs = IF Len(t.frames) = 1 THEN -1 ELSE @])

\* f returns normally and exception_free runs drop(scope_guard)
exception_free_return(c) ==
  LET t == Top(c) IN
  /\ t.pc = "run"
  /\ t.frames # <<>>
  /\ DropGuard(c, t)
  /\ UNCHANGED <<kind, coreIndex, got, seen, calls, taken, harnessVars>>

\* unwinding leaves one exception_free call: its scope guard is dropped.
\* "back" records the register as it was when the call left was entered.
\* (faulty variant: the restore is skipped when the body panics)
UnwindFrame_Skip(c, t) ==
  LET f == t.frames[Len(t.frames)] IN
  /\ daif' = daif
  /\ values' = ReleaseCell(values, f)
  /\ ctx' = SetTop(c, [t EXCEPT !.frames = SubSeq(@, 1, Len(@) - 1),
                                !.obs = IF Len(t.frames) = 1 THEN -1 ELSE @,
                                !.crossed = @ + 1, !.back = f.entry])
UnwindFrame(c, t) ==
  LET f == t.frames[Len(t.frames)] IN
  /\ daif' = [daif EXCEPT ![c] = aarch64_restore(@, f.prev)]
  /\ values' = ReleaseCell(values, f)
  /\ ctx' = SetTop(c, [t EXCEPT !.frames = SubSeq(@, 1, Len(@) - 1),
                                !.obs = IF Len(t.frames) = 1 THEN -1 ELSE @,
                                !.crossed = @ + 1, !.back = f.entry])

Unwind(c) ==
  LET t == Top(c) IN
  /\ t.pc \in Panicking
  /\ t.frames # <<>>
  /\ UnwindFrame(c, t)
  /\ UNCHANGED <<kind, coreIndex, got, seen, calls, taken, harnessVars>>

\* the panic has left every region of the context and is caught at its root
Landed(c) ==
  LET t == Top(c) IN
  /\ t.pc \in Panicking
  /\ t.frames = <<>>
  /\ ctx' = SetTop(c, [t EXCEPT !.pc = "run", !.crossed = 0, !.back = {}])
  /\ UNCHANGED <<kind, coreIndex, got, seen, values, daif, calls, taken, harnessVars>>

(* ----------------------- PerCore::get / get_mut ----------------------- *)
\* &self.values[C::core_index()]: the reference, or the bounds-check panic
Get(c) ==
  LET t == Top(c)
      r == get(c)
  IN
  /\ t.pc = "run"
  /\ IF r.ok
     THEN /\ got' = [got EXCEPT ![c] = r.slot]
          /\ seen' = [seen EXCEPT ![c] = @ \cup {r.slot}]
          /\ ctx' = ctx
     ELSE /\ got' = got
          /\ seen' = seen
          /\ ctx' = SetTop(c, [t EXCEPT !.pc = "panic_bounds"])
  /\ UNCHANGED <<kind, coreIndex, values, daif, calls, taken, harnessVars>>

\* &mut self.values[C::core_index()]; &mut self: no reference into the
\* container is in use anywhere
GetMut(c) ==
  LET t == Top(c)
      r == get_mut(c)
  IN
  /\ t.pc = "run"
  /\ ~BorrowAlive
  /\ IF r.ok
     THEN /\ got' = [got EXCEPT ![c] = r.slot]
          /\ seen' = [seen EXCEPT ![c] = @ \cup {r.slot}]
          /\ ctx' = ctx
     ELSE /\ got' = got
          /\ seen' = seen
          /\ ctx' = SetTop(c, [t EXCEPT !.pc = "panic_bounds"])
  /\ UNCHANGED <<kind, coreIndex, values, daif, calls, taken, harnessVars>>

(* ---------------------- borrow / borrow_mut --------------------------- *)
\* pub fn borrow<'cs>(&'cs self, _: ExceptionFree<'cs>) -> &'cs T
\* k is the region whose token is passed
borrow(c, k) ==
  LET t == Top(c) IN
  /\ t.pc = "run"
  /\ got[c] # -1
  /\ k \in 1 .. Len(t.frames)
  /\ t.frames[k].acc = "none"
  /\ ctx' = SetTop(c, [t EXCEPT !.frames[k].acc = "shared",
                                !.frames[k].slot = got[c]])
  /\ UNCHANGED <<kind, coreIndex, got, seen, values, daif, calls, taken, harnessVars>>

\* RefCell::borrow_mut on the cell of slot got[c], for the token of region k:
\* a panic if the cell is already borrowed, else the RefMut
\* (faulty variant: the RefCell's flag is not looked at)
RefCell_borrow_mut_Unchecked(c, k, t) ==
  /\ ctx' = SetTop(c, [t EXCEPT !.frames[k].acc = "mut",
                                !.frames[k].slot = got[c]])
  /\ values' = [values EXCEPT ![got[c]].writing = TRUE]
RefCell_borrow_mut(c, k, t) ==
  IF values[got[c]].writing
  THEN /\ ctx' = SetTop(c, [t EXCEPT !.pc = "panic_borrow"])
       /\ values' = values
  ELSE /\ ctx' = SetTop(c, [t EXCEPT !.frames[k].acc = "mut",
                                     !.frames[k].slot = got[c]])
       /\ values' = [values EXCEPT ![got[c]].writing = TRUE]

\* pub fn borrow_mut<'cs>(&'cs self, token) -> RefMut<'cs, T>:
\* self.borrow(token).borrow_mut()
borrow_mut(c, k) ==
  LET t == Top(c) IN
  /\ t.pc = "run"
  /\ got[c] # -1
  /\ k \in 1 .. Len(t.frames)
  /\ t.frames[k].acc = "none"
  /\ RefCell_borrow_mut(c, k, t)
  /\ UNCHANGED <<kind, coreIndex, got, seen, daif, calls, taken, harnessVars>>

\* the token is Copy: borrow_mut called again with a copy of the token
\* whose RefMut is still alive
borrow_mut_copy(c, k) ==
  LET t == Top(c) IN
  /\ t.pc = "run"
  /\ got[c] # -1
  /\ k \in 1 .. Len(t.frames)
  /\ t.frames[k].acc = "mut"
  /\ RefCell_borrow_mut(c, k, t)
  /\ UNCHANGED <<kind, coreIndex, got, seen, daif, calls, taken, harnessVars>>

\* assert_eq!(*r, ..): the value is read through a RefMut
Read(c, k) ==
  LET t == Top(c) IN
  /\ t.pc = "run"
  /\ k \in 1 .. Len(t.frames)
  /\ t.frames[k].acc = "mut"
  /\ ctx' = SetTop(c, [t EXCEPT !.obs = values[t.frames[k].slot].v])
  /\ UNCHANGED <<kind, coreIndex, got, seen, values, daif, calls, taken, harnessVars>>

\* *r += 1 through a RefMut
\* (faulty variant: the neighbouring slot is written)
Write_Neighbour(c, k) ==
  LET t == Top(c) IN
  /\ t.pc = "run"
  /\ k \in 1 .. Len(t.frames)
  /\ t.frames[k].acc = "mut"
  /\ values[(t.frames[k].slot + 1) % SlotCount].v + 1 \in Vals
  /\ values' = [values EXCEPT ![(t.frames[k].slot + 1) % SlotCount].v = @ + 1]
  /\ ctx' = SetTop(c, [t EXCEPT !.obs = -1])
  /\ UNCHANGED <<kind, coreIndex, got, seen, daif, calls, taken, harnessVars>>
Write(c, k) ==
  LET t == Top(c) IN
  /\ t.pc = "run"
  /\ k \in 1 .. Len(t.frames)
  /\ t.frames[k].acc = "mut"
  /\ values[t.frames[k].slot].v + 1 \in Vals
  /\ values' = [values EXCEPT ![t.frames[k].slot].v = @ + 1]
  /\ ctx' = SetTop(c, [t EXCEPT !.obs = -1])
  /\ UNCHANGED <<kind, coreIndex, got, seen, daif, calls, taken, harnessVars>>

\* a reference obtained through borrow/borrow_mut is dropped
Release(c, k) ==
  LET t == Top(c) IN
  /\ t.pc = "run"
  /\ k \in 1 .. Len(t.frames)
  /\ t.frames[k].acc # "none"
  /\ values' = ReleaseCell(values, t.frames[k])
  /\ ctx' = SetTop(c, [t EXCEPT !.frames[k].acc = "none",
                                !.frames[k].slot = -1])
  /\ UNCHANGED <<kind, coreIndex, got, seen, daif, calls, taken, harnessVars>>

(* -------------------- asynchronous exceptions ------------------------- *)
\* mask bit of each asynchronous exception: FIQ, IRQ, SError, Debug
ExceptionBits == {6, 7, 8, 9}

\* an exception whose mask bit is clear is taken: the hardware saves the
\* register, masks everything and starts the handler
TakeException(c, b) ==
  /\ b \notin daif[c]
  /\ Depth(c) <= MaxHandlers
  /\ taken < MaxExceptions
  /\ taken' = taken + 1
  /\ ctx' = [ctx EXCEPT ![c] = Append(@, NewContext(TRUE, daif[c]))]
  /\ daif' = [daif EXCEPT ![c] = @ \cup DAIF_FIELD]
  /\ UNCHANGED <<kind, coreIndex, got, seen, values, calls, harnessVars>>

\* the handler returns: the hardware restores the saved register
ExceptionReturn(c) ==
  LET t == Top(c) IN
  /\ t.handler
  /\ t.pc = "run"
  /\ t.frames = <<>>
  /\ ctx' = [ctx EXCEPT ![c] = SubSeq(@, 1, Len(@) - 1)]
  /\ daif' = [daif EXCEPT ![c] = t.spsr]
  /\ UNCHANGED <<kind, coreIndex, got, seen, values, calls, taken, harnessVars>>

Next ==
  \E c \in Cores :
    \/ ExceptionGuard_mask_mrs(c)
    \/ ExceptionGuard_mask_msr(c)
    \/ exception_free_return(c)
    \/ Unwind(c)
    \/ Landed(c)
    \/ Get(c)
    \/ GetMut(c)
    \/ \E k \in 1 .. MaxRegions : borrow(c, k)
    \/ \E k \in 1 .. MaxRegions : borrow_mut(c, k)
    \/ \E k \in 1 .. MaxRegions : Write(c, k)
    \/ \E k \in 1 .. MaxRegions : Release(c, k)
    \/ \E b \in ExceptionBits : TakeException(c, b)
    \/ ExceptionReturn(c)

Spec == Init /\ [][Next]_vars

(* ------------- the same machine, with the cells' values read ---------- *)
\* a platform that keeps the contract of Cores: every core its own index,
\* below the core count
LockInit ==
  /\ Init
  /\ \A a, b \in Cores : a # b => coreIndex[a] # coreIndex[b]
  /\ \A a \in Cores : coreIndex[a] \in Slots

LockNext ==
  \/ Next
  \/ \E c \in Cores : \E k \in 1 .. MaxRegions : Read(c, k)

LockSpec == LockInit /\ [][LockNext]_vars

(* ------------- the same machine, with tokens used again --------------- *)
CopyNext ==
  \/ Next
  \/ \E c \in Cores : \E k \in 1 .. MaxRegions : borrow_mut_copy(c, k)

CopySpec == LockInit /\ [][CopyNext]_vars

(* ------------- exception_free with the 32-bit mask / restore ---------- *)
\* CPSR mode field M[4:0]: supervisor, and the mode each asynchronous
\* exception is taken to (FIQ, IRQ, abort)
ModeBits == {0, 1, 2, 3, 4}
ModeSvc == {0, 1, 4}
EntryMode(b) ==
  IF b = 6 THEN {0, 4} ELSE IF b = 7 THEN {1, 4} ELSE {0, 1, 2, 4}

\* mask bits the hardware sets when the exception with mask bit b is taken:
\* FIQ entry sets A, I and F; IRQ and abort entry set A and I
EntryMask(b) == IF b = 6 THEN {6, 7, 8} ELSE {7, 8}

ArmInitCpsr(c) == (InitMask(c) \cap AIF_MASK) \cup ModeSvc

ArmInit ==
  /\ kind = "array"
  /\ coreIndex = RealCores
  /\ values = [s \in Slots |-> [v |-> InitVal, writing |-> FALSE]]
  /\ daif = [c \in Cores |-> ArmInitCpsr(c)]
  /\ ctx = [c \in Cores |-> <<NewContext(FALSE, ArmInitCpsr(c))>>]
  /\ got = [c \in Cores |-> -1]
  /\ seen = [c \in Cores |-> {}]
  /\ calls = 0
  /\ taken = 0
  /\ HarnessOff
  /\ DefaultOff

\* mask(): "mrs {prev}, CPSR"
aarch32_mask_mrs(c) ==
  LET t == Top(c) IN
  /\ t.pc = "run"
  /\ calls < MaxRegions
  /\ calls' = calls + 1
  /\ ctx' = SetTop(c, [t EXCEPT !.pc = "masking", !.tmp = daif[c],
                                !.at = daif[c]])
  /\ UNCHANGED <<kind, coreIndex, got, seen, values, daif, taken, harnessVars>>

\* mask(): "cpsid aif", return prev & AIF_MASK; then the guard holds the
\* value returned and f(token) starts
aarch32_mask_cpsid(c) ==
  LET t == Top(c)
      fs == Append(t.frames,
                   [prev |-> aarch32_mask(t.tmp).prev, entry |-> t.at,
                    acc |-> "none", slot |-> -1, level |-> Len(t.frames) + 1])
  IN
  /\ t.pc = "masking"
  /\ daif' = [daif EXCEPT ![c] = aarch32_cpsid_aif(@)]
  /\ ctx' = SetTop(c, [t EXCEPT !.pc = "run", !.tmp = {}, !.at = {},
                                !.frames = fs])
  /\ UNCHANGED <<kind, coreIndex, got, seen, values, calls, taken, harnessVars>>

\* f returns, the guard is dropped; restore(prev): "mrs {temp}, CPSR"
aarch32_restore_mrs(c) ==
  LET t == Top(c) IN
  /\ t.pc = "run"
  /\ t.frames # <<>>
  /\ ctx' = SetTop(c, [t EXCEPT !.pc = "restore_mrs", !.tmp = daif[c]])
  /\ UNCHANGED <<kind, coreIndex, got, seen, values, daif, calls, taken, harnessVars>>

\* restore(prev): "and {temp}, {temp}, {mask}", mask = prev | !AIF_MASK
aarch32_restore_and(c) ==
  LET t == Top(c) IN
  /\ t.pc = "restore_mrs"
  /\ ctx' = SetTop(c, [t EXCEPT !.pc = "restore_and",
                                !.tmp = aarch32_restore(
                                          @, t.frames[Len(t.frames)].prev)])
  /\ UNCHANGED <<kind, coreIndex, got, seen, values, daif, calls, taken, harnessVars>>

\* restore(prev): "msr CPSR, {temp}"; the guard is gone
aarch32_restore_msr(c) ==
  LET t == Top(c) IN
  /\ t.pc = "restore_and"
  /\ daif' = [daif EXCEPT ![c] = t.tmp]
  /\ ctx' = SetTop(c, [t EXCEPT !.pc = "run", !.tmp = {},
                                !.frames = SubSeq(@, 1, Len(@) - 1)])
  /\ UNCHANGED <<kind, coreIndex, got, seen, values, calls, taken, harnessVars>>

\* an asynchronous exception whose mask bit (F, I or A) is clear is taken:
\* the hardware saves CPSR, sets the mode and the entry mask bits
aarch32_TakeException(c, b) ==
  /\ b \in AIF_MASK
  /\ b \notin daif[c]
  /\ Depth(c) <= MaxHandlers
  /\ taken < MaxExceptions
  /\ taken' = taken + 1
  /\ ctx' = [ctx EXCEPT ![c] = Append(@, NewContext(TRUE, daif[c]))]
  /\ daif' = [daif EXCEPT ![c] = ((@ \ ModeBits) \cup EntryMode(b)) \cup EntryMask(b)]
  /\ UNCHANGED <<kind, coreIndex, got, seen, values, calls, harnessVars>>

\* the handler returns: the hardware writes the saved value back to CPSR
aarch32_ExceptionReturn(c) ==
  LET t == Top(c) IN
  /\ t.handler
  /\ t.pc = "run"
  /\ t.frames = <<>>
  /\ ctx' = [ctx EXCEPT ![c] = SubSeq(@, 1, Len(@) - 1)]
  /\ daif' = [daif EXCEPT ![c] = t.spsr]
  /\ UNCHANGED <<kind, coreIndex, got, seen, values, calls, taken, harnessVars>>

ArmNext ==
  \E c \in Cores :
    \/ aarch32_mask_mrs(c)
    \/ aarch32_mask_cpsid(c)
    \/ aarch32_restore_mrs(c)
    \/ aarch32_restore_and(c)
    \/ aarch32_restore_msr(c)
    \/ \E b \in AIF_MASK : aarch32_TakeException(c, b)
    \/ aarch32_ExceptionReturn(c)

ArmSpec == ArmInit /\ [][ArmNext]_vars

(* ------------- mask() and restore() on their own, both backends ------- *)
\* the interrupt-enable bits of each backend's register
EnableBits(arch) == IF arch = "aarch64" THEN DAIF_FIELD ELSE AIF_MASK

mask(arch, reg) ==
  IF arch = "aarch64" THEN aarch64_mask(reg) ELSE aarch32_mask(reg)

restore(arch, reg, prev) ==
  IF arch = "aarch64" THEN aarch64_restore(reg, prev)
  ELSE aarch32_restore(reg, prev)

\* register values tried: every pattern of the enable bits; on the 32-bit
\* backend combined with every pattern of some other CPSR bits
\* (mode M[0], M[4], Thumb, endianness, negative flag)
OtherBits32 == {0, 4, 5, 9, 31}
Inputs64 == SUBSET DAIF_FIELD
Inputs32 == {a \cup o : a \in SUBSET AIF_MASK, o \in SUBSET OtherBits32}

RegInit ==
  /\ kind = "array"
  /\ coreIndex = RealCores
  /\ values = [s \in Slots |-> [v |-> InitVal, writing |-> FALSE]]
  /\ daif = [c \in Cores |-> InitMask(c)]
  /\ ctx = [c \in Cores |-> <<NewContext(FALSE, InitMask(c))>>]
  /\ got = [c \in Cores |-> -1]
  /\ seen = [c \in Cores |-> {}]
  /\ calls = 0
  /\ taken = 0
  /\ rarch \in {"aarch64", "aarch32"}
  /\ rpc = "start"
  /\ rorig \in (IF rarch = "aarch64" THEN Inputs64 ELSE Inputs32)
  /\ rreg = rorig
  /\ rprev = {}
  /\ DefaultOff

RegMask ==
  /\ rpc = "start"
  /\ rprev' = mask(rarch, rreg).prev
  /\ rreg' = mask(rarch, rreg).reg
  /\ rpc' = "masked"
  /\ UNCHANGED <<rarch, rorig, machineVars, defaultVars>>

RegRestore ==
  /\ rpc = "masked"
  /\ rreg' = restore(rarch, rreg, rprev)
  /\ rpc' = "restored"
  /\ UNCHANGED <<rarch, rorig, rprev, machineVars, defaultVars>>

\* restore() is a public unsafe function: called on its own, with any
\* argument, whatever the register holds
RegRestoreDirect ==
  /\ rpc = "start"
  /\ \E prev \in (IF rarch = "aarch64" THEN Inputs64 ELSE Inputs32) :
       /\ rprev' = prev
       /\ rreg' = restore(rarch, rreg, prev)
  /\ rpc' = "direct"
  /\ UNCHANGED <<rarch, rorig, machineVars, defaultVars>>

RegNext == RegMask \/ RegRestore \/ RegRestoreDirect

RegSpec == RegInit /\ [][RegNext]_vars

(* ------------------- PerCore::new_with_default ------------------------ *)
\* pub const fn new(values: V) -> Self
PerCore_new(vals) == [values |-> vals]

\* Default::default() of the element types tried: u32, and the tests'
\* ExceptionLock<RefCell<u32>> (value 0, not borrowed)
ElemTypes == {"u32", "ExceptionLock<RefCell<u32>>"}
Default_default(ty) ==
  IF ty = "u32" THEN 0 ELSE [v |-> 0, writing |-> FALSE]

\* repeat_with(|| Default::default()).take(n).collect(): Take::next calls the
\* closure while n > 0; "calls" counts the closure's calls
RECURSIVE repeat_with_take(_, _, _)
repeat_with_take(ty, n, acc) ==
  IF n = 0 THEN acc
  ELSE repeat_with_take(ty, n - 1,
         [items |-> Append(acc.items, Default_default(ty)),
          calls |-> acc.calls + 1])

\* collect() into Box<[T]>: element i of the slice is the i-th item yielded
collect(items) == [i \in 0 .. (Len(items) - 1) |-> items[i + 1]]

\* pub fn new_with_default(core_count: usize) -> Self
\* (faulty variant: one element more than asked for)
new_with_default_OneMore(ty, core_count) ==
  LET it == repeat_with_take(ty, core_count + 1, [items |-> <<>>, calls |-> 0])
      boxed_slice == collect(it.items)
  IN  [percore |-> PerCore_new(boxed_slice), calls |-> it.calls]
new_with_default(ty, core_count) ==
  LET it == repeat_with_take(ty, core_count, [items |-> <<>>, calls |-> 0])
      boxed_slice == collect(it.items)
  IN  [percore |-> PerCore_new(boxed_slice), calls |-> it.calls]

DefaultInit ==
  /\ kind = "boxed"
  /\ coreIndex \in Identities
  /\ values = [s \in Slots |-> [v |-> InitVal, writing |-> FALSE]]
  /\ daif = [c \in Cores |-> InitMask(c)]
  /\ ctx = [c \in Cores |-> <<NewContext(FALSE, InitMask(c))>>]
  /\ got = [c \in Cores |-> -1]
  /\ seen = [c \in Cores |-> {}]
  /\ calls = 0
  /\ taken = 0
  /\ HarnessOff
  /\ dtype \in ElemTypes
  /\ dcount \in 0 .. MaxCoreCount
  /\ dpc = "start"
  /\ dstate = [values |-> <<>>]
  /\ dcalls = 0
  /\ dprobe = NoProbe

DefaultNew ==
  /\ dpc = "start"
  /\ dstate' = new_with_default(dtype, dcount).percore
  /\ dcalls' = new_with_default(dtype, dcount).calls
  /\ dpc' = "built"
  /\ UNCHANGED <<dtype, dcount, dprobe, machineVars, registerVars>>

\* get() and get_mut() of core c on the PerCore returned
DefaultGet(c) ==
  /\ dpc = "built"
  /\ dprobe' = [op |-> "get", core |-> c, r |-> PerCoreBoxed_get(dstate.values, c)]
  /\ dpc' = "probed"
  /\ UNCHANGED <<dtype, dcount, dstate, dcalls, machineVars, registerVars>>

DefaultGetMut(c) ==
  /\ dpc = "built"
  /\ dprobe' = [op |-> "get_mut", core |-> c,
                r |-> PerCoreBoxed_get_mut(dstate.values, c)]
  /\ dpc' = "probed"
  /\ UNCHANGED <<dtype, dcount, dstate, dcalls, machineVars, registerVars>>

DefaultNext ==
  \/ DefaultNew
  \/ \E c \in Cores : DefaultGet(c)
  \/ \E c \in Cores : DefaultGetMut(c)

DefaultSpec == DefaultInit /\ [][DefaultNext]_vars

(* ============================ properties ============================== *)
Injective(f) == \A a, b \in DOMAIN f : a # b => f[a] # f[b]
InRange(f) == \A a \in DOMAIN f : f[a] \in Slots

\* the contexts (core, position in the core's stack) that hold a reference to
\* the value of slot s obtained through borrow or borrow_mut
Holders(s) ==
  {h \in Cores \X (1 .. (MaxHandlers + 1)) :
     /\ h[2] <= Depth(h[1])
     /\ \E k \in 1 .. Len(ctx[h[1]][h[2]].frames) :
          /\ ctx[h[1]][h[2]].frames[k].acc # "none"
          /\ ctx[h[1]][h[2]].frames[k].slot = s}

\* C1: with an injective core_index, at most one execution context (a core's
\* thread or one of its exception handlers) holds access to a slot's value at
\* any time
C1_MutualExclusion ==
  Injective(coreIndex) => \A s \in Slots : Cardinality(Holders(s)) <= 1

\* a handler holds its core's value while another core holds its own
C1_Witness ==
  /\ coreIndex = RealCores
  /\ \E c, d \in Cores :
       /\ c # d
       /\ Depth(c) = 2
       /\ Holders(coreIndex[c]) = {<<c, 2>>}
       /\ Holders(coreIndex[d]) = {<<d, 1>>}

\* C2: while a body of exception_free runs on a core, D, A, I and F are all
\* set on that core, and no context was suspended inside a region by an
\* exception (no handler began before the region's restore)
C2_MaskedWhileTokenLive ==
  \A c \in Cores :
    /\ Top(c).frames # <<>> => DAIF_FIELD \subseteq daif[c]
    /\ \A i \in 1 .. (Depth(c) - 1) : ctx[c][i].frames = <<>>

C2_Witness ==
  \E c \in Cores :
    /\ ~Top(c).handler
    /\ Top(c).pc = "run"
    /\ Len(Top(c).frames) = 1
    /\ Top(c).frames[1].prev # DAIF_FIELD
    /\ Top(c).frames[1].acc = "mut"

\* a step of core c's running context that leaves one exception_free call
LeavesRegion(c) ==
  /\ Len(ctx'[c]) = Len(ctx[c])
  /\ Len(ctx'[c][Depth(c)].frames) = Len(Top(c).frames) - 1

\* outside every region the register is what it was before the outermost entry
C3_Terminal ==
  \A c \in Cores : Top(c).frames = <<>> => daif[c] = Top(c).outer

C3_ExitStep ==
  \A c \in Cores :
    LeavesRegion(c) => daif'[c] = Top(c).frames[Len(Top(c).frames)].entry

\* C3: every exit of a region leaves the register as it was when that call
\* was entered, and after the outermost exit the register is as it was before
\* the outermost entry
C3_NestedRestore == [][C3_ExitStep]_vars /\ []C3_Terminal

\* a nested pair of regions has returned, from a partly masked start
C3_Witness ==
  \E c \in Cores :
    /\ Top(c).pc = "run"
    /\ Top(c).frames = <<>>
    /\ Top(c).nested
    /\ Top(c).outer \notin {{}, DAIF_FIELD}

C4_InnerExitStep ==
  \A c \in Cores :
    (LeavesRegion(c) /\ Len(Top(c).frames) >= 2) =>
      /\ DAIF_FIELD \subseteq daif'[c]
      /\ ctx'[c][Depth(c)].frames =
           SubSeq(Top(c).frames, 1, Len(Top(c).frames) - 1)

\* C4: when an inner region exits, everything stays masked and the outer
\* region's guard still holds its saved state
C4_InnerExitKeepsMask == [][C4_InnerExitStep]_vars

\* back in the outer body after an inner region, the outer call having
\* started with something unmasked
C4_Witness ==
  \E c \in Cores :
    /\ Top(c).pc = "run"
    /\ Len(Top(c).frames) = 1
    /\ Top(c).nested
    /\ Top(c).frames[1].prev # DAIF_FIELD
    /\ Top(c).frames[1].entry = Top(c).frames[1].prev

\* C5: on every way out of the body the captured state is restored: outside
\* every region, reached by return or by a panic, the register is as it was
\* before the outermost entry, and while a panic unwinds the register is,
\* after each region it leaves, as it was when that region was entered
C5_UnwindRestores ==
  \A c \in Cores :
    /\ Top(c).frames = <<>> => daif[c] = Top(c).outer
    /\ (Top(c).pc \in Panicking /\ Top(c).crossed >= 1) =>
         daif[c] = Top(c).back

\* a panic has crossed two nested regions
C5_Witness ==
  \E c \in Cores :
    /\ Top(c).pc \in Panicking
    /\ Top(c).crossed = 2
    /\ Top(c).frames = <<>>
    /\ DAIF_FIELD \ Top(c).outer # {}

\* C6: mask() then restore(prev): the interrupt-enable bits are what they were
C6_RoundTrip ==
  rpc = "restored" =>
    rreg \cap EnableBits(rarch) = rorig \cap EnableBits(rarch)

C6_Witness ==
  /\ rpc = "restored"
  /\ rarch = "aarch32"
  /\ rorig \cap AIF_MASK = {7}
  /\ 31 \in rorig

\* C7: mask() returns the enable bits as they were and leaves all of them set
C7_MaskCaptures ==
  rpc = "masked" =>
    /\ rprev \cap EnableBits(rarch) = rorig \cap EnableBits(rarch)
    /\ EnableBits(rarch) \subseteq rreg

C7_Witness ==
  /\ rpc = "masked"
  /\ rarch = "aarch64"
  /\ rorig = {6, 9}
  /\ rprev = {6, 9}

C8_OnlyOwnSlot ==
  \A c \in Cores : coreIndex[c] \in Slots => seen[c] \subseteq {coreIndex[c]}

\* a step in which get()/get_mut() returns on core c (got is written by
\* nothing else), or in which its bounds check fails
C8_GetStep ==
  \A c \in Cores :
    coreIndex[c] \in Slots =>
      /\ got'[c] # got[c] => got'[c] = coreIndex[c]
      /\ Len(ctx'[c]) = Len(ctx[c]) => ctx'[c][Depth(c)].pc # "panic_bounds"

\* C8: get() and get_mut() on a core whose index i is below the slot count
\* return slot i, in both storage shapes
C8_GetReturnsOwnSlot == [][C8_GetStep]_vars /\ []C8_OnlyOwnSlot

C8_Witness ==
  /\ kind = "boxed"
  /\ coreIndex = RealCores
  /\ got[NumCores - 1] = NumCores - 1

C9_NoSlotReached ==
  \A c \in Cores :
    coreIndex[c] \notin Slots => (got[c] = -1 /\ seen[c] = {})

C9_GetStep ==
  \A c \in Cores :
    (coreIndex[c] \notin Slots /\ (Get(c) \/ GetMut(c))) =>
      /\ ctx'[c][Depth(c)].pc = "panic_bounds"
      /\ got' = got
      /\ seen' = seen
      /\ values' = values

\* C9: get() on a core whose index is not below the slot count panics at
\* once: no reference is returned, no slot is reached, no slot changes
C9_OutOfBoundsFaults == [][C9_GetStep]_vars /\ []C9_NoSlotReached

C9_Witness ==
  \E c \in Cores :
    /\ coreIndex[c] = SlotCount
    /\ Top(c).pc = "panic_bounds"
    /\ got[c] = -1

\* C10: with distinct in-range indices no slot is ever returned to two
\* cores, and no core is ever returned two different slots
C10_Partition ==
  (Injective(coreIndex) /\ InRange(coreIndex)) =>
    /\ \A c, d \in Cores : c # d => seen[c] \cap seen[d] = {}
    /\ \A c \in Cores : Cardinality(seen[c]) <= 1

C10_Witness ==
  /\ Injective(coreIndex) /\ InRange(coreIndex)
  /\ \A c \in Cores : seen[c] # {}

\* C11: a write through get().borrow_mut(token) on a core whose identity
\* reports i stores the new value in slot i, where the next read finds it,
\* and leaves the value of every other slot as it was
C11_WriteStep ==
  \A s \in Slots :
    values'[s].v # values[s].v =>
      /\ \E c \in Cores :
           /\ coreIndex[c] = s
           /\ \E k \in 1 .. Len(Top(c).frames) :
                Top(c).frames[k].acc = "mut" /\ Top(c).frames[k].slot = s
      /\ values'[s].v = values[s].v + 1
      /\ \A j \in Slots \ {s} : values'[j].v = values[j].v

C11_WriteChangesOwnSlotOnly == [][C11_WriteStep]_vars

\* the tests' scenario: identity fixed at 0, slot 0 written, the others not
C11_Witness ==
  /\ coreIndex = FakeCoresImpl
  /\ values[0].v = InitVal + 1
  /\ \A j \in Slots \ {0} : values[j].v = InitVal

\* C15: inside one masked region, a value read from the core's cell is
\* still the cell's value (so a second read observes it again) as long as
\* the reading context has not written, whatever other cores and pending
\* interrupts do
C15_ReadsAgree ==
  \A c \in Cores : \A i \in 1 .. Depth(c) :
    (ctx[c][i].frames # <<>> /\ ctx[c][i].obs # -1) =>
      values[coreIndex[c]].v = ctx[c][i].obs

\* a core has read its cell and is still in the region, after another core
\* has written its own cell and an exception was taken somewhere
C15_Witness ==
  \E c, d \in Cores :
    /\ c # d
    /\ Top(c).frames # <<>>
    /\ Top(c).obs = InitVal
    /\ values[coreIndex[d]].v = InitVal + 1
    /\ taken >= 1

\* C12: new_with_default(core_count) returns a container of exactly
\* core_count slots, each the element type's default value, made by one call
\* of the default-value closure per slot; every index from core_count up is
\* out of bounds
C12_NewWithDefault ==
  dpc # "start" =>
    /\ DOMAIN dstate.values = 0 .. (dcount - 1)
    /\ dcalls = dcount
    /\ \A i \in DOMAIN dstate.values : dstate.values[i] = Default_default(dtype)
    /\ \A i \in dcount .. (MaxCoreCount + NumCores) : ~Index(dstate.values, i).ok
    /\ dprobe.op # "none" =>
         (dprobe.r.ok <=> coreIndex[dprobe.core] < dcount)

\* a container of three locks has been built, and the core whose identity
\* reports 2 has got its slot
C12_Witness ==
  /\ dpc = "probed"
  /\ dtype = "ExceptionLock<RefCell<u32>>"
  /\ dcount = 3
  /\ dprobe.op = "get"
  /\ dprobe.r = [ok |-> TRUE, slot |-> 2]

\* C13 as stated: the heap-backed container has no get_mut, so no call of
\* get_mut on a heap-backed container ever takes place
C13_NoBoxedGetMut == dprobe.op # "get_mut"

\* C13: the heap-backed container has get_mut as well as get; called on the
\* core whose identity reports i it returns the i-th slot of the container
\* when i is below the slot count, and faults otherwise
C13_BoxedGetMutOwnSlot ==
  dprobe.op = "get_mut" =>
    dprobe.r = IF coreIndex[dprobe.core] < dcount
               THEN [ok |-> TRUE, slot |-> coreIndex[dprobe.core]]
               ELSE [ok |-> FALSE, slot |-> -1]

\* get_mut on a heap-backed container of two slots has returned slot 1
C13_Witness ==
  /\ kind = "boxed"
  /\ dcount = 2
  /\ dprobe.op = "get_mut"
  /\ dprobe.r = [ok |-> TRUE, slot |-> 1]

\* the contexts that hold a RefMut of the cell of slot s
MutHolders(s) ==
  {h \in Cores \X (1 .. (MaxHandlers + 1)) :
     /\ h[2] <= Depth(h[1])
     /\ \E k \in 1 .. Len(ctx[h[1]][h[2]].frames) :
          /\ ctx[h[1]][h[2]].frames[k].acc = "mut"
          /\ ctx[h[1]][h[2]].frames[k].slot = s}

\* borrow can be called with any live token that has made no reference yet,
\* whether or not the cell is borrowed
C14_BorrowEnabled ==
  \A c \in Cores : \A k \in 1 .. Len(Top(c).frames) :
    (Top(c).pc = "run" /\ got[c] # -1 /\ Top(c).frames[k].acc = "none") =>
      ENABLED borrow(c, k)

C14_BorrowStep ==
  \A c \in Cores : \A k \in 1 .. MaxRegions :
    (/\ Top(c).pc = "run" /\ got[c] # -1 /\ k \in 1 .. Len(Top(c).frames)
     /\ ctx'[c] # ctx[c]) =>
      /\ borrow(c, k) =>
           /\ ctx'[c][Depth(c)].pc = "run"
           /\ ctx'[c][Depth(c)].frames[k].acc = "shared"
           /\ values' = values
      /\ (borrow_mut(c, k) \/ borrow_mut_copy(c, k)) =>
           IF MutHolders(got[c]) = {}
           THEN /\ ctx'[c][Depth(c)].pc = "run"
                /\ ctx'[c][Depth(c)].frames[k].acc = "mut"
                /\ ctx'[c][Depth(c)].frames[k].slot = got[c]
           ELSE /\ ctx'[c][Depth(c)].pc = "panic_borrow"
                /\ ctx'[c][Depth(c)].frames = Top(c).frames
                /\ values' = values

\* C14: borrow(token) succeeds for every live token, also while the cell is
\* mutably borrowed; borrow_mut(token) returns the RefMut when no RefMut of
\* the cell is outstanding, and panics, the cell and its value untouched,
\* when one obtained earlier (with another token or a copy of the same) is
C14_BorrowRules == [][C14_BorrowStep]_vars /\ []C14_BorrowEnabled

\* borrow_mut has panicked on a copy of the token whose RefMut is alive,
\* after that RefMut wrote the value
C14_Witness ==
  \E c \in Cores :
    /\ Top(c).pc = "panic_borrow"
    /\ Len(Top(c).frames) = 1
    /\ Top(c).frames[1].acc = "mut"
    /\ values[Top(c).frames[1].slot].v = InitVal + 1

\* C16: regions retire last in, first out: the guards alive in a context
\* are always the oldest ones, in their order of creation (a guard created
\* inside another body is gone before the enclosing one), and only the
\* running context of a core has regions open, so that mask/restore pairs
\* of one core are nested or disjoint
C16_LastInFirstOut ==
  \A c \in Cores : \A i \in 1 .. Depth(c) :
    /\ \A k \in 1 .. Len(ctx[c][i].frames) : ctx[c][i].frames[k].level = k
    /\ i < Depth(c) => ctx[c][i].frames = <<>>

\* a panic has left the inner of two nested regions and not yet the outer
C16_Witness ==
  \E c \in Cores :
    /\ Top(c).pc \in Panicking
    /\ Top(c).crossed = 1
    /\ Len(Top(c).frames) = 1
    /\ Top(c).frames[1].level = 1

\* C17: between the read and the disabling write of mask() the value read is
\* the register's value: while the context runs it is the register itself,
\* and while a handler runs in between it is the value the handler will
\* return with; so what mask() returns is the register's value just before
\* the disabling write
C17_MaskReadIsCurrent ==
  \A c \in Cores : \A i \in 1 .. Depth(c) :
    ctx[c][i].pc = "masking" =>
      ctx[c][i].tmp =
        (IF i = Depth(c) THEN daif[c] ELSE ctx[c][i + 1].spsr) \cap DAIF_FIELD

\* a handler that interrupted mask() between its two instructions, when
\* something was unmasked, is inside a region of its own
C17_Witness ==
  \E c \in Cores :
    /\ Depth(c) = 2
    /\ ctx[c][1].pc = "masking"
    /\ ctx[c][1].tmp # DAIF_FIELD
    /\ Top(c).handler /\ Top(c).pc = "run" /\ Len(Top(c).frames) = 1

\* C18: with the 32-bit mask and restore under exception_free, A, I and F
\* stay set from the end of mask() to the last write of restore(), so no
\* context is ever suspended by an exception inside a region or between the
\* read and the write of restore()
C18_RestoreNotInterleaved ==
  \A c \in Cores :
    /\ Top(c).frames # <<>> => AIF_MASK \subseteq daif[c]
    /\ \A i \in 1 .. (Depth(c) - 1) :
         /\ ctx[c][i].frames = <<>>
         /\ ctx[c][i].pc \notin {"restore_mrs", "restore_and"}

\* a handler is in the middle of restore() (it has read CPSR, not yet
\* written it), leaving a region it entered with FIQs enabled
C18_Witness ==
  \E c \in Cores :
    /\ Depth(c) = 2
    /\ Top(c).pc = "restore_and"
    /\ 6 \notin Top(c).frames[1].prev
    /\ 6 \notin Top(c).tmp

====
